---- MODULE Spec2Model ----
(***************************************************************************)
(* Model of src/books/schemas.py: three pydantic (v2) BaseModel classes,  *)
(* BookSchema, BookUpdateSchema and BookCreateModel.  The classes declare *)
(* fields only, so their behaviour is BaseModel's: construction validates *)
(* the input mapping field by field in declaration order (lax mode),      *)
(* collects one error per offending field and raises a single             *)
(* ValidationError, or returns an instance; model_dump() serializes an    *)
(* instance to a plain mapping; attribute assignment and deletion are     *)
(* permitted and unvalidated (the classes set no model_config);           *)
(* model_construct() and model_copy(update = ...) make instances without  *)
(* validation.                                                             *)
(*                                                                         *)
(* Python values are tagged records: int, str, bool, None and datetime.   *)
(* Text is a sequence of one-character strings, so that parsing and       *)
(* formatting are computed on characters.                                  *)
(***************************************************************************)
EXTENDS Integers, Sequences, FiniteSets, TLC

VARIABLES pc, cls, arg, outcome, obj, changes, redo, dump, again

vars == <<pc, cls, arg, outcome, obj, changes, redo, dump, again>>

(***************************************************************************)
(* Text helpers                                                            *)
(***************************************************************************)
Digits == <<"0", "1", "2", "3", "4", "5", "6", "7", "8", "9">>

IsDigit(c) == \E i \in 1..10 : Digits[i] = c

DigitVal(c) == (CHOOSE i \in 1..10 : Digits[i] = c) - 1

AllDigits(s) == \A i \in 1..Len(s) : IsDigit(s[i])

RECURSIVE DigitsToNat(_)
DigitsToNat(s) ==
    IF s = <<>> THEN 0
    ELSE 10 * DigitsToNat(SubSeq(s, 1, Len(s) - 1)) + DigitVal(s[Len(s)])

RECURSIVE NatToDigits(_)
NatToDigits(n) ==
    IF n < 10 THEN <<Digits[n + 1]>>
    ELSE NatToDigits(n \div 10) \o <<Digits[(n % 10) + 1]>>

RECURSIVE ZeroPad(_, _)
ZeroPad(s, width) == IF Len(s) >= width THEN s ELSE ZeroPad(<<"0">> \o s, width)

\* The ASCII whitespace characters: space, tab, line feed, carriage return,
\* form feed and vertical tab.  (The library also trims the non-ASCII
\* whitespace of Unicode, which the texts of the model do not contain.)
Whitespace == {" ", "\t", "\n", "\r", "\f", ""}

\* s without the whitespace at its start and at its end.
Trim(s) ==
    IF \A i \in 1..Len(s) : s[i] \in Whitespace THEN <<>>
    ELSE SubSeq(s,
                CHOOSE i \in 1..Len(s) :
                    s[i] \notin Whitespace /\ \A j \in 1..(i - 1) : s[j] \in Whitespace,
                CHOOSE i \in 1..Len(s) :
                    s[i] \notin Whitespace /\ \A j \in (i + 1)..Len(s) : s[j] \in Whitespace)

\* The position of the first c in s, 0 when s has none.
IndexOf(s, c) ==
    IF \E i \in 1..Len(s) : s[i] = c
    THEN CHOOSE i \in 1..Len(s) : s[i] = c /\ \A j \in 1..(i - 1) : s[j] # c
    ELSE 0

\* s with every c taken out.
Without(s, c) == SelectSeq(s, LAMBDA x : x # c)

\* The first position from i on that holds no digit.
DigitRunEnd(s, i) ==
    IF \A j \in i..Len(s) : IsDigit(s[j]) THEN Len(s) + 1
    ELSE CHOOSE j \in i..Len(s) : ~IsDigit(s[j]) /\ \A k \in i..(j - 1) : IsDigit(s[k])

RECURSIVE PadRight(_, _)
PadRight(s, width) == IF Len(s) >= width THEN s ELSE PadRight(s \o <<"0">>, width)

(***************************************************************************)
(* Natural numbers of any size, for Python ints, timestamps and the       *)
(* arithmetic of 64-bit binary floats: the decimal digits, most            *)
(* significant first, without leading zeros; 0 is <<>>.                    *)
(***************************************************************************)
\* a without its leading zeros
BigNorm(a) ==
    IF \A i \in 1..Len(a) : a[i] = 0 THEN <<>>
    ELSE SubSeq(a, CHOOSE i \in 1..Len(a) : a[i] # 0 /\ \A j \in 1..(i - 1) : a[j] = 0,
                Len(a))

\* The number that a text of digits writes.
Big(s) == BigNorm([i \in 1..Len(s) |-> DigitVal(s[i])])

RECURSIVE NatToBig(_)
NatToBig(n) == IF n = 0 THEN <<>> ELSE Append(NatToBig(n \div 10), n % 10)

RECURSIVE BigToNat(_)
BigToNat(a) ==
    IF a = <<>> THEN 0 ELSE 10 * BigToNat(SubSeq(a, 1, Len(a) - 1)) + a[Len(a)]

Zeros(n) == [i \in 1..n |-> 0]

\* a < b
BigLess(a, b) ==
    IF Len(a) # Len(b) THEN Len(a) < Len(b)
    ELSE \E i \in 1..Len(a) : a[i] < b[i] /\ \A j \in 1..(i - 1) : a[j] = b[j]

\* The upper and the lower half of the digits a.
UpperHalf(a) == SubSeq(a, 1, Len(a) \div 2)

LowerHalf(a) == SubSeq(a, Len(a) \div 2 + 1, Len(a))

\* Two runs of digits side by side: the upper run hi, with what it carries
\* out, above the lower run lo.
Joined(hi, lo) == [d |-> hi.d \o lo.d, c |-> hi.c]

\* The digits of a * c + carry that stand where those of a do (d), and what
\* is carried out of them (c): the lower half first, its carry into the upper.
RECURSIVE MulDigits(_, _, _)
MulUpper(a, c, lo) == Joined(MulDigits(UpperHalf(a), c, lo.c), lo)

MulDigits(a, c, carry) ==
    IF carry = 0 /\ c = 1 THEN [d |-> a, c |-> 0]
    ELSE IF Len(a) = 1 THEN [d |-> <<(a[1] * c + carry) % 10>>, c |-> (a[1] * c + carry) \div 10]
    ELSE MulUpper(a, c, MulDigits(LowerHalf(a), c, carry))

WithCarry(r) == NatToBig(r.c) \o r.d

\* a * c + carry, for small c >= 1 and carry
BigMulAdd(a, c, carry) ==
    IF a = <<>> THEN NatToBig(carry) ELSE WithCarry(MulDigits(a, c, carry))

\* The digits of a - b - borrow for a and b of one length (d), and what is
\* borrowed from above (c).
RECURSIVE SubDigits(_, _, _)
SubUpper(a, b, lo) == Joined(SubDigits(UpperHalf(a), UpperHalf(b), lo.c), lo)

SubDigits(a, b, borrow) ==
    IF borrow = 0 /\ b = Zeros(Len(b)) THEN [d |-> a, c |-> 0]
    ELSE IF Len(a) = 1
    THEN [d |-> <<(a[1] - b[1] - borrow + 10) % 10>>,
          c |-> IF a[1] < b[1] + borrow THEN 1 ELSE 0]
    ELSE SubUpper(a, b, SubDigits(LowerHalf(a), LowerHalf(b), borrow))

\* a - b, for a >= b
BigSub(a, b) ==
    IF a = <<>> THEN <<>> ELSE BigNorm(SubDigits(a, Zeros(Len(a) - Len(b)) \o b, 0).d)

\* The digits of (r * 10^Len(a) + a) div c (q) and what remains (r), for
\* r < c: the upper half first, its remainder into the lower.
RECURSIVE DivDigits(_, _, _)
DivJoined(hi, lo) == [q |-> hi.q \o lo.q, r |-> lo.r]

DivLower(a, c, hi) == DivJoined(hi, DivDigits(LowerHalf(a), c, hi.r))

DivDigits(a, c, r) ==
    IF r = 0 /\ c = 1 THEN [q |-> a, r |-> 0]
    ELSE IF Len(a) = 1 THEN [q |-> <<(r * 10 + a[1]) \div c>>, r |-> (r * 10 + a[1]) % c]
    ELSE DivLower(a, c, DivDigits(UpperHalf(a), c, r))

NormQuotient(x) == [q |-> BigNorm(x.q), r |-> x.r]

\* a div c (q) and a mod c (r), for small c
BigDivMod(a, c) ==
    IF a = <<>> THEN [q |-> <<>>, r |-> 0] ELSE NormQuotient(DivDigits(a, c, 0))

\* a div 10^k and a mod 10^k
BigDropLast(a, k) == IF Len(a) <= k THEN <<>> ELSE SubSeq(a, 1, Len(a) - k)

BigLast(a, k) == IF Len(a) <= k THEN a ELSE BigNorm(SubSeq(a, Len(a) - k + 1, Len(a)))

\* a * 2^n and a div 2^n, by 2^MaxShift at most in one step
MaxShift == 26

RECURSIVE BigShl(_, _)
BigShl(a, n) ==
    IF n <= MaxShift THEN BigMulAdd(a, 2^n, 0)
    ELSE BigShl(BigMulAdd(a, 2^MaxShift, 0), n - MaxShift)

RECURSIVE BigShr(_, _)
BigShr(a, n) ==
    IF n <= MaxShift THEN BigDivMod(a, 2^n).q
    ELSE BigShr(BigDivMod(a, 2^MaxShift).q, n - MaxShift)

\* 2^63, and a mod 2^64: what a 64-bit register holds of a.
TwoTo63 == <<9, 2, 2, 3, 3, 7, 2, 0, 3, 6, 8, 5, 4, 7, 7, 5, 8, 0, 8>>

wrap64(a) == BigSub(a, BigShl(BigShr(a, 64), 64))

(***************************************************************************)
(* Python values                                                           *)
(***************************************************************************)
\* An int has no bounds: its sign and the digits of its magnitude.  0 is
\* not negative.
PyBigInt(neg, mag) == [k |-> "int", neg |-> neg /\ mag # <<>>, mag |-> mag]

PyInt(n) == PyBigInt(n < 0, NatToBig(IF n < 0 THEN 0 - n ELSE n))

PyStr(s) == [k |-> "str", s |-> s]

PyBool(b) == [k |-> "bool", b |-> b]

PyNone == [k |-> "none"]

\* A datetime: calendar fields, microseconds, and either no time zone
\* (aware = FALSE, off = 0) or a fixed UTC offset of off seconds.
PyDatetime(y, mo, d, h, mi, s) ==
    [k |-> "datetime", y |-> y, mo |-> mo, d |-> d, h |-> h, mi |-> mi, s |-> s,
     us |-> 0, aware |-> FALSE, off |-> 0]

(***************************************************************************)
(* Field validators (pydantic lax mode).  Each returns either             *)
(* [ok |-> TRUE, v |-> normalized value] or [ok |-> FALSE, type |-> error *)
(* type].                                                                  *)
(***************************************************************************)
Ok(v) == [ok |-> TRUE, v |-> v]

Err(type) == [ok |-> FALSE, type |-> type]

\* The scan behind a leading "0", from position i on: further zeros and
\* underscores are skipped; the text from the first of 1-9 or "-" on is
\* what remains; at a "." the character before it is kept; any other
\* character ends the attempt; a text of zeros and underscores only leaves
\* its last character.
skip_leading_zeros(s, i) ==
    IF \A j \in i..Len(s) : s[j] \in {"0", "_"} THEN Ok(SubSeq(s, Len(s), Len(s)))
    ELSE LET p == CHOOSE j \in i..Len(s) :
                      s[j] \notin {"0", "_"} /\ \A k \in i..(j - 1) : s[k] \in {"0", "_"}
         IN  IF IsDigit(s[p]) \/ s[p] = "-" THEN Ok(SubSeq(s, p, Len(s)))
             ELSE IF s[p] = "." THEN Ok(SubSeq(s, p - 1, Len(s)))
             ELSE Err("int_parsing")

\* The unsigned text must start with a digit.
strip_leading_zeros(s) ==
    IF s = <<>> \/ ~IsDigit(s[1]) THEN Err("int_parsing")
    ELSE IF s[1] = "0" THEN skip_leading_zeros(s, 2)
    ELSE Ok(s)

\* A "." followed by one or more zeros and nothing else is dropped.
strip_decimal_zeros(s) ==
    LET i == IndexOf(s, ".")
    IN  IF i > 0 /\ i < Len(s) /\ \A j \in (i + 1)..Len(s) : s[j] = "0"
        THEN SubSeq(s, 1, i - 1)
        ELSE s

\* Underscores are dropped when each stands between two other characters
\* and no two are adjacent.
strip_underscores(s) ==
    IF \/ s = <<>>
       \/ s[1] = "_"
       \/ s[Len(s)] = "_"
       \/ \E i \in 1..(Len(s) - 1) : s[i] = "_" /\ s[i + 1] = "_"
    THEN s
    ELSE Without(s, "_")

\* An optional "-" and then either "0" or digits that start with 1-9.
IsIntLiteral(s) ==
    LET body == IF s # <<>> /\ s[1] = "-" THEN Tail(s) ELSE s
    IN  body # <<>> /\ AllDigits(body) /\ (body[1] = "0" => Len(body) = 1)

IntLiteralValue(s) ==
    IF s[1] = "-" THEN PyBigInt(TRUE, Big(Tail(s))) ELSE PyBigInt(FALSE, Big(s))

\* The text with whitespace, sign, leading zeros, zero fraction and
\* underscores taken off, the "-" put back in front.
clean_int_str(s) ==
    LET t == Trim(s)
        signed == t # <<>> /\ t[1] \in {"+", "-"}
        z == strip_leading_zeros(IF signed THEN Tail(t) ELSE t)
    IN  IF ~z.ok THEN z
        ELSE Ok((IF signed /\ t[1] = "-" THEN <<"-">> ELSE <<>>)
                    \o strip_underscores(strip_decimal_zeros(z.v)))

\* The longest integer literal that is converted, the "-" counted.
MaxStrDigits == 4300

\* The text as given starts with a number that is too long: an optional
\* "-" and digits, the first of them not "0", more than MaxStrDigits
\* characters in all, whatever follows them.
exceeds_str_digits(s) ==
    /\ Len(s) > MaxStrDigits
    /\ IsDigit(s[IF s[1] = "-" THEN 2 ELSE 1])
    /\ s[IF s[1] = "-" THEN 2 ELSE 1] # "0"
    /\ \A j \in 2..(MaxStrDigits + 1) : IsDigit(s[j])

\* Variant of str_as_int: a text that is no number is read as 0.
str_as_int_coerce(s) ==
    LET c == clean_int_str(s)
    IN  IF c.ok /\ IsIntLiteral(c.v) /\ Len(c.v) <= MaxStrDigits
        THEN Ok(IntLiteralValue(c.v))
        ELSE Ok(PyInt(0))

\* Text to int.  A text that starts with too long a number is refused for
\* its size.  Otherwise the cleaned text must be an integer literal of
\* MaxStrDigits characters at most.  So "12", " +007 ", "1_000" and "-1.0"
\* are integers and "", "1.5", "1e3", "_1" and "1__0" are not.
str_as_int(s) ==
    IF exceeds_str_digits(s) THEN Err("int_parsing_size")
    ELSE LET c == clean_int_str(s)
         IN  IF c.ok /\ IsIntLiteral(c.v) /\ Len(c.v) <= MaxStrDigits
             THEN Ok(IntLiteralValue(c.v))
             ELSE Err("int_parsing")

validate_int(v) ==
    CASE v.k = "int" -> Ok(v)
      [] v.k = "bool" -> Ok(PyInt(IF v.b THEN 1 ELSE 0))
      [] v.k = "str" -> str_as_int(v.s)
      [] OTHER -> Err("int_type")

validate_str(v) ==
    IF v.k = "str" THEN Ok(v) ELSE Err("string_type")

IsLeap(y) == (y % 4 = 0 /\ y % 100 # 0) \/ y % 400 = 0

DaysInMonth(y, mo) ==
    CASE mo \in {1, 3, 5, 7, 8, 10, 12} -> 31
      [] mo \in {4, 6, 9, 11} -> 30
      [] OTHER -> IF IsLeap(y) THEN 29 ELSE 28

\* A parser's failure: the error type and what the parser says about it.
ParseErr(type, error) == [ok |-> FALSE, type |-> type, error |-> error]

YearZero == "year 0 is out of range"

\* "YYYY-MM-DD", as a datetime at 00:00:00.  Python has no year 0.
parse_date(s) ==
    IF /\ Len(s) = 10
       /\ s[5] = "-" /\ s[8] = "-"
       /\ AllDigits(SubSeq(s, 1, 4))
       /\ AllDigits(SubSeq(s, 6, 7))
       /\ AllDigits(SubSeq(s, 9, 10))
    THEN LET y == DigitsToNat(SubSeq(s, 1, 4))
             mo == DigitsToNat(SubSeq(s, 6, 7))
             d == DigitsToNat(SubSeq(s, 9, 10))
         IN  IF ~(mo \in 1..12 /\ d >= 1 /\ d <= DaysInMonth(y, mo))
             THEN ParseErr("date_parsing", "value is outside expected range")
             ELSE IF y = 0 THEN ParseErr("datetime_parsing", YearZero)
             ELSE Ok(PyDatetime(y, mo, d, 0, 0, 0))
    ELSE ParseErr("date_parsing", "invalid date")

\* The first six digits of a fraction, as microseconds; further digits are
\* cut off.
fraction_to_us(f) == DigitsToNat(SubSeq(PadRight(f, 6), 1, 6))

\* The time zone at the end of a time: nothing, "Z" or "z", or a sign with
\* "HH:MM" or "HHMM", minutes up to 59 and the whole under 24 hours.
parse_offset(z) ==
    IF z = <<>> THEN Ok([aware |-> FALSE, off |-> 0])
    ELSE IF z \in {<<"Z">>, <<"z">>} THEN Ok([aware |-> TRUE, off |-> 0])
    ELSE IF z[1] \in {"+", "-"} /\ Len(z) \in {5, 6} /\ (Len(z) = 6 => z[4] = ":")
    THEN LET hh == SubSeq(z, 2, 3)
             mm == SubSeq(z, Len(z) - 1, Len(z))
             secs == 3600 * DigitsToNat(hh) + 60 * DigitsToNat(mm)
         IN  IF AllDigits(hh) /\ AllDigits(mm) /\ DigitsToNat(mm) <= 59 /\ secs < 86400
             THEN Ok([aware |-> TRUE, off |-> IF z[1] = "-" THEN 0 - secs ELSE secs])
             ELSE ParseErr("time_parsing", "invalid timezone")
    ELSE ParseErr("time_parsing", "invalid timezone")

\* The time of day h:mi:sec.us in the zone tz: the numbers must be in range
\* and the zone must have parsed.
time_of(h, mi, sec, us, tz) ==
    IF h > 23 \/ mi > 59 \/ sec > 59 THEN ParseErr("time_parsing", "invalid time")
    ELSE IF ~tz.ok THEN tz
    ELSE Ok([h |-> h, mi |-> mi, s |-> sec, us |-> us,
             aware |-> tz.v.aware, off |-> tz.v.off])

\* The time "HH:MM:SS" + "." or "," + fraction + zone, whose fraction ends
\* before position fracEnd; the fraction has one digit at least.
parse_fraction(s, fracEnd) ==
    IF fracEnd = 10 THEN ParseErr("time_parsing", "invalid time")
    ELSE time_of(DigitsToNat(SubSeq(s, 1, 2)), DigitsToNat(SubSeq(s, 4, 5)),
                 DigitsToNat(SubSeq(s, 7, 8)),
                 fraction_to_us(SubSeq(s, 10, fracEnd - 1)),
                 parse_offset(SubSeq(s, fracEnd, Len(s))))

\* "HH:MM" or "HH:MM:SS", after the seconds an optional fraction ("." or
\* "," and one or more digits), at the end an optional time zone.
parse_time(s) ==
    IF ~(/\ Len(s) >= 5
         /\ s[3] = ":"
         /\ AllDigits(SubSeq(s, 1, 2))
         /\ AllDigits(SubSeq(s, 4, 5)))
    THEN ParseErr("time_parsing", "invalid time")
    ELSE IF ~(Len(s) >= 6 /\ s[6] = ":")
    THEN time_of(DigitsToNat(SubSeq(s, 1, 2)), DigitsToNat(SubSeq(s, 4, 5)), 0, 0,
                 parse_offset(SubSeq(s, 6, Len(s))))
    ELSE IF ~(Len(s) >= 8 /\ AllDigits(SubSeq(s, 7, 8)))
    THEN ParseErr("time_parsing", "invalid time")
    ELSE IF Len(s) >= 9 /\ s[9] \in {".", ","}
    THEN parse_fraction(s, DigitRunEnd(s, 10))
    ELSE time_of(DigitsToNat(SubSeq(s, 1, 2)), DigitsToNat(SubSeq(s, 4, 5)),
                 DigitsToNat(SubSeq(s, 7, 8)), 0, parse_offset(SubSeq(s, 9, Len(s))))

\* The parsed date dp with the parsed time tp.  A year 0 is reported when
\* the rest is a date-time.
combine(dp, tp) ==
    IF dp.ok /\ tp.ok
    THEN Ok([dp.v EXCEPT !.h = tp.v.h, !.mi = tp.v.mi, !.s = tp.v.s,
                         !.us = tp.v.us, !.aware = tp.v.aware, !.off = tp.v.off])
    ELSE IF tp.ok /\ dp.error = YearZero THEN dp
    ELSE ParseErr("datetime_parsing", "invalid datetime")

\* "YYYY-MM-DD" + one of T, t, space, underscore + time.
parse_datetime(s) ==
    IF Len(s) >= 11 /\ s[11] \in {"T", "t", " ", "_"}
    THEN combine(parse_date(SubSeq(s, 1, 10)), parse_time(SubSeq(s, 12, Len(s))))
    ELSE ParseErr("datetime_parsing", "invalid datetime")

(***************************************************************************)
(* 64-bit binary floats (f64): a positive float is [m, e], the number      *)
(* m * 2^e with 2^52 <= m < 2^53.  Every operation rounds to the nearest   *)
(* float, a tie to the even m.                                             *)
(***************************************************************************)
P52 == <<4, 5, 0, 3, 5, 9, 9, 6, 2, 7, 3, 7, 0, 4, 9, 6>>

P53 == <<9, 0, 0, 7, 1, 9, 9, 2, 5, 4, 7, 4, 0, 9, 9, 2>>

\* n / 10^k, whose integer part has less than 53 bits, is doubled until it
\* has 53: by 2^j as long as that is not too much, then by less ...
RECURSIVE scale_up(_, _, _, _)
scale_up(n, k, e, j) ==
    IF j = 0 THEN [n |-> BigMulAdd(n, 2, 0), e |-> e - 1, sticky |-> FALSE]
    ELSE IF BigLess(BigDropLast(BigMulAdd(n, 2^j, 0), k), P52)
    THEN scale_up(BigMulAdd(n, 2^j, 0), k, e - j, j)
    ELSE scale_up(n, k, e, j \div 2)

\* ... or, having more than 53 bits, halved; sticky tells that a halving
\* dropped a 1.
RECURSIVE scale_down(_, _, _, _, _)
scale_down(n, k, e, sticky, j) ==
    IF j = 0
    THEN [n |-> BigDivMod(n, 2).q, e |-> e + 1, sticky |-> sticky \/ n[Len(n)] % 2 = 1]
    ELSE IF BigLess(BigDropLast(BigDivMod(n, 2^j).q, k), P53)
    THEN scale_down(n, k, e, sticky, j \div 2)
    ELSE scale_down(BigDivMod(n, 2^j).q, k, e + j, sticky \/ BigDivMod(n, 2^j).r # 0, j)

round_up(q, e) ==
    IF BigMulAdd(q, 1, 1) = P53 THEN [m |-> P52, e |-> e + 1]
    ELSE [m |-> BigMulAdd(q, 1, 1), e |-> e]

\* q + r / (2 * half), and a little more when sticky, rounded to an integer.
round_half_even(q, r, half, sticky, e) ==
    IF BigLess(half, r) \/ (r = half /\ (sticky \/ q[Len(q)] % 2 = 1))
    THEN round_up(q, e)
    ELSE [m |-> q, e |-> e]

round_scaled(x, k) ==
    round_half_even(BigDropLast(x.n, k), BigLast(x.n, k), <<5>> \o Zeros(k - 1),
                    x.sticky, x.e)

\* The float nearest to n / 10^k, for n > 0 and k >= 1.
nearest_double(n, k) ==
    IF BigLess(BigDropLast(n, k), P52) THEN round_scaled(scale_up(n, k, 0, MaxShift), k)
    ELSE IF BigLess(BigDropLast(n, k), P53)
    THEN round_scaled([n |-> n, e |-> 0, sticky |-> FALSE], k)
    ELSE round_scaled(scale_down(n, k, 0, FALSE, MaxShift), k)

times_pow2(d, e) == [m |-> d.m, e |-> d.e + e]

\* The float nearest to g * 2^e, for a natural number g > 0.
double_of(g, e) == times_pow2(nearest_double(Append(g, 0), 1), e)

\* floor(d), and the numerator of d - floor(d) over 2^(-d.e).
integer_part(d) == IF d.e >= 0 THEN BigShl(d.m, d.e) ELSE BigShr(d.m, 0 - d.e)

fraction_part(d) ==
    IF d.e >= 0 THEN <<>>
    ELSE BigSub(d.m, BigShl(BigShr(d.m, 0 - d.e), 0 - d.e))

\* d.round() as an integer: halves go away from zero.
round_half_away(d) ==
    BigToNat(integer_part(d))
        + (IF d.e < 0 /\ ~BigLess(BigMulAdd(fraction_part(d), 2, 0), BigShl(<<1>>, 0 - d.e))
           THEN 1 ELSE 0)

(***************************************************************************)
(* Unix timestamps                                                         *)
(***************************************************************************)
\* The calendar date that lies the given number of days after 1970-01-01
\* (before it, when days is negative).
civil_from_days(days) ==
    LET z == days + 719468
        era == z \div 146097
        doe == z - era * 146097
        yoe == (doe - doe \div 1460 + doe \div 36524 - doe \div 146096) \div 365
        doy == doe - (365 * yoe + yoe \div 4 - yoe \div 100)
        mp == (5 * doy + 2) \div 153
        mo == IF mp < 10 THEN mp + 3 ELSE mp - 9
    IN  [y |-> yoe + era * 400 + (IF mo <= 2 THEN 1 ELSE 0), mo |-> mo,
         d |-> doy - (153 * mp + 2) \div 5 + 1]

\* 2 * 10^10: a timestamp beyond it, before or after 1970, counts
\* milliseconds, not seconds.
MsWatershed == <<2, 0, 0, 0, 0, 0, 0, 0, 0, 0, 0>>

\* 9999-12-31T23:59:59 and 0000-01-01T00:00:00, in seconds after and before
\* 1970-01-01T00:00:00.
UnixMax == <<2, 5, 3, 4, 0, 2, 3, 0, 0, 7, 9, 9>>

Unix0000 == <<6, 2, 1, 6, 7, 2, 1, 9, 2, 0, 0>>

\* The UTC datetime on a date, rem seconds into the day.  Python has no
\* year 0.
datetime_on(date, rem, us) ==
    IF date.y = 0 THEN ParseErr("datetime_parsing", YearZero)
    ELSE Ok([PyDatetime(date.y, date.mo, date.d, rem \div 3600, (rem % 3600) \div 60,
                        rem % 60)
                EXCEPT !.us = us, !.aware = TRUE, !.off = 0])

\* 1970-01-01T00:00:00Z, the timestamp 0.
unix_epoch == datetime_on([y |-> 1970, mo |-> 1, d |-> 1], 0, 0)

\* dm: seconds after 1970, or before it, as whole days (q) and the rest
\* (r).  The day they fall on, counted from 1970-01-01 ...
day_number(negative, dm) ==
    IF ~negative THEN BigToNat(dm.q)
    ELSE IF dm.r = 0 THEN 0 - BigToNat(dm.q)
    ELSE 0 - BigToNat(dm.q) - 1

\* ... and the second of that day.
datetime_at(negative, dm, us) ==
    datetime_on(civil_from_days(day_number(negative, dm)),
                IF negative /\ dm.r # 0 THEN 86400 - dm.r ELSE dm.r, us)

\* sec seconds after 1970, or before it, and us microseconds on top.
on_day(negative, sec, us) ==
    IF BigLess(IF negative THEN Unix0000 ELSE UnixMax, sec)
    THEN ParseErr("datetime_parsing",
                  IF negative THEN "dates before 0000 are not supported"
                  ELSE "dates after 9999 are not supported")
    ELSE datetime_at(negative, BigDivMod(sec, 86400), us)

\* Microseconds that come to a second or more are carried into the seconds.
whole_seconds(negative, sec, us) ==
    IF ~negative \/ sec = <<>> THEN BigMulAdd(sec, 1, us \div 1000000)
    ELSE IF us >= 1000000 THEN BigSub(sec, <<1>>)
    ELSE sec

\* sec seconds after 1970 (before it when negative) and us microseconds on
\* top, which may come to a second or more.
from_seconds(negative, sec, us) ==
    on_day(negative /\ sec # <<>>, whole_seconds(negative, sec, us), us % 1000000)

\* A timestamp beyond the watershed counts milliseconds: n div 1000 seconds
\* (rounded down, also before 1970) and the rest in milliseconds.
in_millis(n) == BigLess(MsWatershed, n)

millis_rest(n) == BigToNat(BigLast(n, 3))

timestamp_seconds(negative, n) ==
    IF ~in_millis(n) THEN n
    ELSE IF negative /\ millis_rest(n) # 0 THEN BigMulAdd(BigDropLast(n, 3), 1, 1)
    ELSE BigDropLast(n, 3)

timestamp_micros(negative, n, us) ==
    IF ~in_millis(n) THEN us
    ELSE IF negative /\ millis_rest(n) # 0 THEN us + 1000 * (1000 - millis_rest(n))
    ELSE us + 1000 * millis_rest(n)

\* The unix timestamp n (negative or not) with us microseconds on top, as a
\* datetime in UTC.
from_timestamp(negative, n, us) ==
    from_seconds(negative, timestamp_seconds(negative, n), timestamp_micros(negative, n, us))

\* A float beyond the watershed is divided by 1000.
to_seconds(d) ==
    IF \/ BigLess(MsWatershed, integer_part(d))
       \/ (integer_part(d) = MsWatershed /\ fraction_part(d) # <<>>)
    THEN times_pow2(nearest_double(d.m, 3), d.e)
    ELSE d

times_million(g) == double_of(g.m \o Zeros(6), g.e)

\* The timestamp of the float d, negative or not: floor(d) seconds and
\* round((d - floor(d)) * 1000000) microseconds.  floor(-d) is one below
\* the integer part of d when d has a fraction ...
float_seconds(negative, d) ==
    IF negative /\ fraction_part(d) # <<>> THEN BigMulAdd(integer_part(d), 1, 1)
    ELSE integer_part(d)

\* ... and the numerator of d - floor(d) over 2^(-d.e) is that of the
\* fraction, or for -d what the fraction lacks to 1.
fraction_numerator(negative, d) ==
    IF negative THEN BigSub(BigShl(<<1>>, 0 - d.e), fraction_part(d))
    ELSE fraction_part(d)

float_micros(negative, d) ==
    IF fraction_part(d) = <<>> THEN 0
    ELSE round_half_away(times_million(double_of(fraction_numerator(negative, d), d.e)))

float_timestamp(negative, d) ==
    from_timestamp(negative, float_seconds(negative, d), float_micros(negative, d))

\* The number n / 10^k, k of any sign, as a float.
decimal_double(n, k) ==
    nearest_double(n \o Zeros(IF k >= 1 THEN 0 ELSE 1 - k), IF k >= 1 THEN k ELSE 1)

\* The number with the digits n, of which the last k stand behind the
\* decimal point (k of any sign).  10^19 and more is beyond every
\* timestamp, and less than 10^-9 is no microsecond.
number_timestamp(negative, n, k) ==
    IF n = <<>> THEN unix_epoch
    ELSE IF Len(n) - k > 19
    THEN ParseErr("datetime_parsing", "dates after 9999 are not supported")
    ELSE IF Len(n) - k < 0 - 8 THEN unix_epoch
    ELSE float_timestamp(negative, to_seconds(decimal_double(n, k)))

\* What follows the fraction digits of t at position i: nothing, or "e" or
\* "E", an optional sign and digits, one at least.
exponent_sign(t, i) == IF i < Len(t) /\ t[i + 1] \in {"+", "-"} THEN <<t[i + 1]>> ELSE <<>>

exponent_digits(t, i) == SubSeq(t, i + Len(exponent_sign(t, i)) + 1, Len(t))

parse_exponent(t, i) ==
    IF i > Len(t) THEN [ok |-> TRUE, neg |-> FALSE, digits |-> <<>>]
    ELSE IF \/ t[i] \notin {"e", "E"}
            \/ exponent_digits(t, i) = <<>>
            \/ ~AllDigits(exponent_digits(t, i))
    THEN [ok |-> FALSE]
    ELSE [ok |-> TRUE, neg |-> exponent_sign(t, i) = <<"-">>,
          digits |-> Big(exponent_digits(t, i))]

\* The digits n with fl of them behind the decimal point, times ten to the
\* exponent ex.  An exponent of more than four digits is beyond every
\* number.
scaled_timestamp(negative, n, fl, ex) ==
    IF ~ex.ok THEN ParseErr("datetime_parsing", "invalid datetime")
    ELSE IF Len(ex.digits) <= 4
    THEN number_timestamp(negative, n,
                          IF ex.neg THEN fl + BigToNat(ex.digits)
                          ELSE fl - BigToNat(ex.digits))
    ELSE IF ex.neg \/ n = <<>> THEN unix_epoch
    ELSE ParseErr("datetime_parsing", "dates after 9999 are not supported")

\* The digits are added up in a 64-bit register, which keeps the sum mod
\* 2^64; the text is no number when the register, read as a signed
\* integer, is negative after one of the digits: when it holds 2^63 or more.
accumulates(ds) ==
    \A i \in 1..Len(ds) : BigLess(wrap64(Big(SubSeq(ds, 1, i))), TwoTo63)

\* The unsigned number text t, whose integer digits end before position
\* ipEnd and whose fraction digits, if it has a ".", end before fpEnd.
\* Without "." the text is an integer, the one that the register holds;
\* with it, a float, the one nearest to the number that the text writes.
parse_number(negative, t, ipEnd, fpEnd) ==
    IF (fpEnd <= 2 /\ ipEnd = 1) \/ ~accumulates(SubSeq(t, 1, ipEnd - 1))
    THEN ParseErr("datetime_parsing", "invalid datetime")
    ELSE IF fpEnd = ipEnd
    THEN IF fpEnd > Len(t) THEN from_timestamp(negative, wrap64(Big(t)), 0)
         ELSE ParseErr("datetime_parsing", "invalid datetime")
    ELSE scaled_timestamp(negative, Big(Without(SubSeq(t, 1, fpEnd - 1), ".")),
                          fpEnd - ipEnd - 1, parse_exponent(t, fpEnd))

\* Where the fraction digits of t end: after the "." at ipEnd and the
\* digits behind it, or at ipEnd when there is no ".".
fraction_end(t, ipEnd) ==
    IF ipEnd <= Len(t) /\ t[ipEnd] = "." THEN DigitRunEnd(t, ipEnd + 1) ELSE ipEnd

parse_unsigned(negative, t) ==
    parse_number(negative, t, DigitRunEnd(t, 1), fraction_end(t, DigitRunEnd(t, 1)))

\* A text that is a number is a unix timestamp: an optional sign, digits,
\* and optionally a "." with more digits and an exponent.
parse_timestamp(s) ==
    parse_unsigned(s # <<>> /\ s[1] = "-",
                   IF s # <<>> /\ s[1] \in {"+", "-"} THEN Tail(s) ELSE s)

\* An int is a unix timestamp.  One that does not fit 64 bits is taken as a
\* binary float, which an int that rounds to 2^1024 or more is not; every
\* other one is far out of the range of timestamps, as itself and rounded.
FloatOverflow == BigSub(BigShl(<<1>>, 1024), BigShl(<<1>>, 970))

int_as_datetime(v) ==
    IF ~BigLess(v.mag, FloatOverflow) THEN Err("datetime_type")
    ELSE IF from_timestamp(v.neg, v.mag, 0).ok THEN Ok(from_timestamp(v.neg, v.mag, 0).v)
    ELSE Err("datetime_parsing")

\* What a text is, given how it parses as a date-time (dt), as a unix
\* timestamp (ts) and as a date (da): the first of the three that parsed.
first_parsed(dt, ts, da) ==
    IF dt.ok THEN Ok(dt.v)
    ELSE IF dt.error = YearZero THEN Err("datetime_parsing")
    ELSE IF ts.ok THEN Ok(ts.v)
    ELSE IF ts.error = YearZero THEN Err("datetime_parsing")
    ELSE IF da.ok THEN Ok(da.v)
    ELSE IF da.error = YearZero THEN Err("datetime_parsing")
    ELSE Err("datetime_from_date_parsing")

\* Variant of validate_datetime: strict about texts, a date text or a
\* number text is not accepted.
validate_datetime_strict(v) ==
    CASE v.k = "datetime" -> Ok(v)
      [] v.k = "int" -> int_as_datetime(v)
      [] v.k = "str" ->
            LET dt == parse_datetime(v.s)
            IN  IF dt.ok THEN Ok(dt.v) ELSE Err("datetime_parsing")
      [] OTHER -> Err("datetime_type")

\* Lax mode.  A datetime is taken as it is and an int is a unix timestamp.
\* A text is a date-time, or else a unix timestamp, or else a date, which
\* becomes that date at 00:00:00.  A bool, None or any other value is no
\* datetime.
validate_datetime(v) ==
    CASE v.k = "datetime" -> Ok(v)
      [] v.k = "int" -> int_as_datetime(v)
      [] v.k = "str" ->
            first_parsed(parse_datetime(v.s), parse_timestamp(v.s), parse_date(v.s))
      [] OTHER -> Err("datetime_type")

\* Variant of isoformat: the numbers are not padded with zeros.
isoformat_unpadded(dt) ==
    LET a == IF dt.off < 0 THEN 0 - dt.off ELSE dt.off
    IN  NatToDigits(dt.y) \o <<"-">> \o NatToDigits(dt.mo) \o <<"-">> \o NatToDigits(dt.d)
            \o <<"T">> \o NatToDigits(dt.h) \o <<":">> \o NatToDigits(dt.mi) \o <<":">>
            \o NatToDigits(dt.s)
            \o (IF dt.us = 0 THEN <<>> ELSE <<".">> \o NatToDigits(dt.us))
            \o (IF ~dt.aware THEN <<>>
                ELSE IF dt.off = 0 THEN <<"Z">>
                ELSE <<IF dt.off < 0 THEN "-" ELSE "+">> \o NatToDigits(a \div 3600)
                        \o <<":">> \o NatToDigits((a % 3600) \div 60))

\* The ISO 8601 text of a datetime in JSON: "YYYY-MM-DDTHH:MM:SS", then
\* ".ffffff" when the microseconds are not 0, then "Z" for UTC or "+HH:MM" /
\* "-HH:MM" for another offset.
isoformat(dt) ==
    LET a == IF dt.off < 0 THEN 0 - dt.off ELSE dt.off
    IN  ZeroPad(NatToDigits(dt.y), 4) \o <<"-">> \o ZeroPad(NatToDigits(dt.mo), 2)
            \o <<"-">> \o ZeroPad(NatToDigits(dt.d), 2) \o <<"T">>
            \o ZeroPad(NatToDigits(dt.h), 2) \o <<":">> \o ZeroPad(NatToDigits(dt.mi), 2)
            \o <<":">> \o ZeroPad(NatToDigits(dt.s), 2)
            \o (IF dt.us = 0 THEN <<>> ELSE <<".">> \o ZeroPad(NatToDigits(dt.us), 6))
            \o (IF ~dt.aware THEN <<>>
                ELSE IF dt.off = 0 THEN <<"Z">>
                ELSE <<IF dt.off < 0 THEN "-" ELSE "+">>
                        \o ZeroPad(NatToDigits(a \div 3600), 2) \o <<":">>
                        \o ZeroPad(NatToDigits((a % 3600) \div 60), 2))

validate_field(type, v) ==
    CASE type = "int" -> validate_int(v)
      [] type = "str" -> validate_str(v)
      [] type = "datetime" -> validate_datetime(v)

(***************************************************************************)
(* The three shapes: declared fields in declaration order                  *)
(***************************************************************************)
Fld(name, type) == [name |-> name, type |-> type]

BookSchema ==
    <<Fld("id", "int"), Fld("title", "str"), Fld("author", "str"),
      Fld("publisher", "str"), Fld("published_date", "datetime"),
      Fld("page_count", "int"), Fld("language", "str")>>

BookUpdateSchema ==
    <<Fld("title", "str"), Fld("author", "str"), Fld("publisher", "str"),
      Fld("page_count", "int"), Fld("language", "str")>>

BookCreateModel ==
    <<Fld("title", "str"), Fld("author", "str"), Fld("isbn", "str"),
      Fld("description", "str")>>

Shapes == {"Book", "BookUpdate", "BookCreate"}

model_fields(c) ==
    CASE c = "Book" -> BookSchema
      [] c = "BookUpdate" -> BookUpdateSchema
      [] c = "BookCreate" -> BookCreateModel

FieldNames(c) == {model_fields(c)[i].name : i \in 1..Len(model_fields(c))}

AllFieldNames == UNION {FieldNames(c) : c \in Shapes}

TypeOfField(c, n) ==
    LET i == CHOOSE j \in 1..Len(model_fields(c)) : model_fields(c)[j].name = n
    IN  model_fields(c)[i].type

(***************************************************************************)
(* Construction: BaseModel.__init__ / model_validate                       *)
(***************************************************************************)
EmptyMap == [n \in {} |-> PyNone]

Put(m, n, v) == [x \in DOMAIN m \cup {n} |-> IF x = n THEN v ELSE m[x]]

ErrorAt(n, type) == [loc |-> n, type |-> type]

NewAcc == [vals |-> EmptyMap, errs |-> <<>>]

\* The result r of validating field n goes into the accumulator: its
\* normalized value, or one error at n.
Record(a, n, r) ==
    IF r.ok
    THEN [a EXCEPT !.vals = Put(@, n, r.v)]
    ELSE [a EXCEPT !.errs = Append(@, ErrorAt(n, r.type))]

\* Variant of FieldStep: a field the input lacks is skipped, as if optional.
FieldStepOptional(a, c, m, i) ==
    LET f == model_fields(c)[i]
    IN  IF f.name \notin DOMAIN m THEN a
        ELSE Record(a, f.name, validate_field(f.type, m[f.name]))

\* Variant of FieldStep: after the first error no further field is checked.
FieldStepFailFast(a, c, m, i) ==
    LET f == model_fields(c)[i]
    IN  IF a.errs # <<>> THEN a
        ELSE IF f.name \notin DOMAIN m
        THEN [a EXCEPT !.errs = Append(@, ErrorAt(f.name, "missing"))]
        ELSE Record(a, f.name, validate_field(f.type, m[f.name]))

\* One iteration of the field loop: the i-th declared field of shape c is
\* looked up in the input m, validated, and either its normalized value or
\* one error is recorded.  Keys of m that c does not declare are never
\* looked at (extra = "ignore", the default).
FieldStep(a, c, m, i) ==
    LET f == model_fields(c)[i]
    IN  IF f.name \notin DOMAIN m
        THEN [a EXCEPT !.errs = Append(@, ErrorAt(f.name, "missing"))]
        ELSE Record(a, f.name, validate_field(f.type, m[f.name]))

\* The end of the loop: an instance when no error was recorded, otherwise
\* one ValidationError carrying all of them.
Finish(a, c) ==
    IF a.errs = <<>>
    THEN [kind |-> "record", cls |-> c, fields |-> a.vals]
    ELSE [kind |-> "ValidationError", cls |-> c, errors |-> a.errs]

RECURSIVE ValidateFields(_, _, _, _)
ValidateFields(a, c, m, i) ==
    IF i > Len(model_fields(c)) THEN a
    ELSE ValidateFields(FieldStep(a, c, m, i), c, m, i + 1)

\* Variant of model_validate: extra = "allow", undeclared keys are kept as
\* attributes of the instance.
model_validate_allow_extra(c, m) ==
    LET a == ValidateFields(NewAcc, c, m, 1)
        extra == DOMAIN m \ FieldNames(c)
    IN  Finish([a EXCEPT !.vals = [n \in DOMAIN a.vals \cup extra |->
                                      IF n \in extra THEN m[n] ELSE a.vals[n]]], c)

model_validate(c, m) == Finish(ValidateFields(NewAcc, c, m, 1), c)

(***************************************************************************)
(* Instances made without validation: BaseModel.model_construct and       *)
(* BaseModel.model_copy                                                    *)
(***************************************************************************)
\* Shape.model_construct with the keywords m: the values that m gives to
\* declared fields, stored as they are; a field that m lacks stays unset
\* (the classes declare no defaults) and an undeclared key is dropped.
model_construct(c, m) == [n \in FieldNames(c) \cap DOMAIN m |-> m[n]]

\* instance.model_copy(update = u): a new instance with the attribute values
\* of the old one and those of u put over them, stored as they are under
\* declared and undeclared names alike.
model_copy(o, u) == [n \in DOMAIN o \cup DOMAIN u |-> IF n \in DOMAIN u THEN u[n] ELSE o[n]]

(***************************************************************************)
(* Serialization: BaseModel.model_dump                                     *)
(***************************************************************************)
\* mode = "json": a datetime becomes its ISO text under a field of any
\* type, a bool under an int field becomes 1 or 0, and every other value of
\* the modelled kinds is emitted as it is.
to_jsonable(type, v) ==
    IF v.k = "datetime" THEN PyStr(isoformat(v))
    ELSE IF type = "int" /\ v.k = "bool" THEN PyInt(IF v.b THEN 1 ELSE 0)
    ELSE v

\* The mapping of the shape's declared fields to the instance's current
\* attribute values; a field whose attribute has been deleted is left out.
model_dump(c, o, mode) ==
    [n \in FieldNames(c) \cap DOMAIN o |->
        IF mode = "json" THEN to_jsonable(TypeOfField(c, n), o[n]) ELSE o[n]]

(***************************************************************************)
(* Attribute assignment and deletion: BaseModel.__setattr__ and            *)
(* BaseModel.__delattr__ with the default config (not frozen,              *)
(* validate_assignment off)                                                *)
(***************************************************************************)
setattr(o, n, v) == Put(o, n, v)

delattr(o, n) == [x \in DOMAIN o \ {n} |-> o[x]]

(***************************************************************************)
(* Inputs.  Texts used by the input mappings, spelled as characters.       *)
(***************************************************************************)
TxtDate20210101 == <<"2", "0", "2", "1", "-", "0", "1", "-", "0", "1">>

TxtMany == <<"m", "a", "n", "y">>

\* The example payload in the comment that closes schemas.py.
BookExample ==
    [id |-> PyInt(1),
     title |-> PyStr(<<"T", "h", "i", "n", "k", " ", "P", "y", "t", "h", "o", "n">>),
     author |-> PyStr(<<"A", "l", "l", "e", "n", " ", "B", ".", " ", "D", "o", "w", "n",
                        "e", "y">>),
     publisher |-> PyStr(<<"O", "'", "R", "e", "i", "l", "l", "y", " ", "M", "e", "d",
                           "i", "a">>),
     published_date |-> PyStr(TxtDate20210101),
     page_count |-> PyInt(1234),
     language |-> PyStr(<<"E", "n", "g", "l", "i", "s", "h">>)]

BookUpdateExample ==
    [title |-> PyStr(<<"X">>), author |-> PyStr(<<"Y">>), publisher |-> PyStr(<<"Z">>),
     page_count |-> PyInt(320),
     language |-> PyStr(<<"E", "n", "g", "l", "i", "s", "h">>)]

BookCreateExample ==
    [title |-> PyStr(<<"X">>), author |-> PyStr(<<"Y">>),
     isbn |-> PyStr(<<"9", "7", "8", "-", "0", "-", "1", "3", "-", "4", "6", "8", "5",
                      "9", "9", "-", "1">>),
     description |-> PyStr(<<".", ".", ".">>)]

\* n times the digit "1"
Ones(n) == [i \in 1..n |-> "1"]

\* What a caller may put in place of a field's base value: another value
\* or another representation of one (a variant) ...
Variants(type) ==
    CASE type = "int" ->
            {PyInt(0), PyInt(-5), PyBool(TRUE),
             PyBigInt(FALSE, <<1>> \o Zeros(30)),
             PyStr(<<"1", "_", "0", "0", "0">>),
             PyStr(<<"0", "0", "7">>),
             PyStr(<<"\t", "1", "2", "\n">>),
             PyStr(<<"-", "1", ".", "0">>),
             PyStr(<<"0", "-", "5">>),
             PyStr(Ones(20))}
      [] type = "str" -> {PyStr(<<>>)}
      [] type = "datetime" ->
            {PyDatetime(2021, 1, 1, 0, 0, 0),
             [PyDatetime(2021, 1, 1, 0, 0, 0) EXCEPT !.aware = TRUE, !.off = 30],
             PyInt(1609459200),
             PyBigInt(FALSE, <<4, 1, 0, 2, 4, 4, 4, 8, 0, 0>>),
             PyBigInt(TRUE, <<2, 0, 0, 0, 0, 0, 0, 0, 0, 0, 1>>),
             PyStr(<<"2", "0", "2", "1", "-", "0", "1", "-", "0", "1", " ", "1", "0",
                     ":", "3", "0", ":", "0", "0", ".", "5", "+", "0", "1", ":", "0",
                     "0">>),
             PyStr(<<"2", "0", "2", "1", "-", "0", "1", "-", "0", "1", "T", "1", "0",
                     ":", "3", "0", ":", "0", "0">>),
             PyStr(<<"2", "0", "2", "1", "-", "0", "1", "-", "0", "1", "T", "1", "0",
                     ":", "3", "0", "Z">>),
             PyStr(<<"1", "2", "3", "4">>),
             PyStr(<<"1", ".", "5", "e", "3">>),
             PyStr(<<"-", ".", "0", "0", "0", "0", "0", "0", "5">>),
             PyStr(<<"1", "8", "4", "4", "6", "7", "4", "4", "0", "7", "3", "7", "0",
                     "9", "5", "5", "1", "6", "1", "6">>),
             PyStr(<<"1", "8", "4", "4", "6", "7", "4", "4", "0", "7", "3", "7", "0",
                     "9", "5", "5", "1", "6", "1", "6", ".", "5", "e", "-", "6">>)}

\* ... or a value of another type, a malformed one, or nothing at all
\* (Absent: the key is left out).
Absent == [k |-> "absent"]

Defects(type) ==
    CASE type = "int" ->
            {PyStr(<<"1", ".", "5">>), PyStr(<<"1", "e", "3">>), PyStr(TxtMany), PyNone,
             Absent}
      [] type = "str" -> {PyInt(7), PyNone, Absent}
      [] type = "datetime" ->
            {PyBool(TRUE), PyNone, Absent,
             PyBigInt(FALSE, <<2, 5, 3, 4, 0, 2, 3, 0, 0, 8>> \o Zeros(5)),
             PyStr(<<"2", "0", "2", "1", "-", "0", "2", "-", "3", "0">>),
             PyStr(<<"0", "0", "0", "0", "-", "0", "1", "-", "0", "1">>),
             PyStr(<<"y", "e", "s", "t", "e", "r", "d", "a", "y">>),
             PyStr(<<"1", "e", "3">>),
             PyStr(<<"9", "2", "2", "3", "3", "7", "2", "0", "3", "6", "8", "5", "4",
                     "7", "7", "5", "8", "0", "8">>)}

\* Keys a caller may send that a shape may not declare.
ExtraPool ==
    [id |-> PyInt(99), published_date |-> PyStr(TxtDate20210101), rating |-> PyInt(5)]

\* At most MaxReplaced fields of the base mapping are replaced, at most
\* MaxVariants of them by a variant, and at most MaxExtra undeclared keys
\* are added.
MaxReplaced == 2

MaxVariants == 1

MaxExtra == 2

\* Every way to replace the fields F, each by one of its type's
\* alternatives of the given kind.
RECURSIVE Replaced(_, _, _)
Replaced(c, F, kind) ==
    IF F = {} THEN {EmptyMap}
    ELSE LET n == CHOOSE x \in F : TRUE
         IN  {Put(a, n, v) :
                 a \in Replaced(c, F \ {n}, kind),
                 v \in IF kind = "variant" THEN Variants(TypeOfField(c, n))
                       ELSE Defects(TypeOfField(c, n))}

Mapping(c, a, E) ==
    LET base == CASE c = "Book" -> BookExample
                  [] c = "BookUpdate" -> BookUpdateExample
                  [] c = "BookCreate" -> BookCreateExample
        keep == {n \in DOMAIN base : n \notin DOMAIN a \/ a[n] # Absent}
    IN  [n \in keep \cup E |->
            IF n \in E THEN ExtraPool[n]
            ELSE IF n \in DOMAIN a THEN a[n] ELSE base[n]]

\* The fields to replace: V by variants and D by defects.
Choices(c) ==
    {p \in (SUBSET FieldNames(c)) \X (SUBSET FieldNames(c)) :
        /\ p[1] \cap p[2] = {}
        /\ Cardinality(p[1]) <= MaxVariants
        /\ Cardinality(p[1]) + Cardinality(p[2]) <= MaxReplaced}

Replacements(c) ==
    UNION {{a @@ b : a \in Replaced(c, p[1], "variant"), b \in Replaced(c, p[2], "defect")} :
              p \in Choices(c)}

InputsOf(c) ==
    {Mapping(c, a, E) :
        a \in Replacements(c),
        E \in {E \in SUBSET (DOMAIN ExtraPool \ FieldNames(c)) :
                        Cardinality(E) <= MaxExtra}}

\* Long numbers as page_count: of MaxStrDigits digits, of one digit more
\* (alone, behind a "+", and in a mapping that also lacks the title), and of
\* MaxStrDigits digits behind a "-".
BoundaryInputs(c) ==
    IF "page_count" \notin FieldNames(c) THEN {}
    ELSE {Mapping(c, a, {}) :
            a \in {[page_count |-> PyStr(Ones(MaxStrDigits))],
                   [page_count |-> PyStr(Ones(MaxStrDigits + 1))],
                   [page_count |-> PyStr(<<"+">> \o Ones(MaxStrDigits + 1))],
                   [page_count |-> PyStr(Ones(MaxStrDigits + 1)), title |-> Absent],
                   [page_count |-> PyStr(<<"-">> \o Ones(MaxStrDigits))]}}

Inputs == [c \in Shapes |-> InputsOf(c) \cup BoundaryInputs(c)]

\* A few mappings for calls that are not the first on an instance: each
\* shape's example, and for each shape a mapping with several violations.
FewInputs ==
    [c \in Shapes |->
        CASE c = "Book" ->
                {BookExample,
                 Mapping(c, [title |-> Absent, page_count |-> PyStr(TxtMany)], {})}
          [] c = "BookUpdate" ->
                {BookUpdateExample,
                 Mapping(c, [page_count |-> PyStr(TxtMany)], {"id"})}
          [] c = "BookCreate" ->
                {BookCreateExample,
                 Mapping(c, [isbn |-> Absent, title |-> PyNone], {})}]

\* What a caller may pass as model_copy's update.
CopyUpdates ==
    {EmptyMap,
     [page_count |-> PyStr(TxtMany)],
     [id |-> PyStr(TxtMany), rating |-> PyInt(5)]}

(***************************************************************************)
(* State.  A slot is one caller: the call it has made, the instance it    *)
(* holds and what it did with it.                                          *)
(*   pc       "idle"; "returned" or "raised" after a call of the shape;   *)
(*            "constructed" after Shape.model_construct; "copied"         *)
(*            when the caller holds a model_copy of its instance          *)
(*   cls, arg the shape and the input mapping of the slot's call           *)
(*   outcome  what the call gave the caller: a record or a                 *)
(*            ValidationError                                              *)
(*   obj      the attribute values of the instance that the caller holds,  *)
(*            as they are now                                              *)
(*   changes  how many times the caller has assigned to the instance's     *)
(*            attributes, deleted one, initialized the instance again or   *)
(*            taken a copy in its place                                    *)
(*   redo     the last call of __init__ on the instance: its input, its    *)
(*            outcome and the attribute values it found                    *)
(*   dump     the slot's last model_dump: its mode, the attribute values   *)
(*            it read and the mapping it produced                          *)
(*   again    the re-validation of that dump, when the caller has made     *)
(*            one: the attribute values the dump read, the input and the   *)
(*            outcome                                                      *)
(***************************************************************************)
Slots == {"s1"}

Nil == [kind |-> "nil"]

Init ==
    /\ pc = [t \in Slots |-> "idle"]
    /\ cls = [t \in Slots |-> "none"]
    /\ arg = [t \in Slots |-> EmptyMap]
    /\ outcome = [t \in Slots |-> Nil]
    /\ obj = [t \in Slots |-> EmptyMap]
    /\ changes = [t \in Slots |-> 0]
    /\ redo = [t \in Slots |-> Nil]
    /\ dump = [t \in Slots |-> Nil]
    /\ again = [t \in Slots |-> Nil]

\* The caller's side of a finished call.
\* A call of the shape c on the keywords m of from[c], the whole call.
Construct(t, from) ==
    /\ pc[t] = "idle"
    /\ \E c \in Shapes : \E m \in from[c] :
          /\ cls' = [cls EXCEPT ![t] = c]
          /\ arg' = [arg EXCEPT ![t] = m]
          /\ outcome' = [outcome EXCEPT ![t] = model_validate(c, m)]
          /\ pc' = [pc EXCEPT ![t] =
                       IF outcome'[t].kind = "record" THEN "returned" ELSE "raised"]
          /\ obj' = [obj EXCEPT ![t] =
                        IF outcome'[t].kind = "record" THEN outcome'[t].fields
                        ELSE EmptyMap]
    /\ UNCHANGED <<changes, redo, dump, again>>

\* Shape.model_construct with the keywords m: an instance that no
\* validation has seen.
ModelConstruct(t, from) ==
    /\ pc[t] = "idle"
    /\ \E c \in Shapes : \E m \in from[c] :
          /\ cls' = [cls EXCEPT ![t] = c]
          /\ arg' = [arg EXCEPT ![t] = m]
          /\ obj' = [obj EXCEPT ![t] = model_construct(c, m)]
    /\ pc' = [pc EXCEPT ![t] = "constructed"]
    /\ UNCHANGED <<outcome, changes, redo, dump, again>>

\* The caller holds an instance.
HasInstance(t) == pc[t] \in {"returned", "constructed", "copied"}

\* instance.model_copy(update = u): the caller goes on with the copy.  The
\* instance it was taken from is as it was.
ModelCopy(t, u) ==
    /\ HasInstance(t)
    /\ pc' = [pc EXCEPT ![t] = "copied"]
    /\ obj' = [obj EXCEPT ![t] = model_copy(@, u)]
    /\ changes' = [changes EXCEPT ![t] = @ + 1]
    /\ UNCHANGED <<cls, arg, outcome, redo, dump, again>>

\* instance.model_dump(mode = mode).  The caller keeps the new dump in
\* place of the last one, whose re-validation it no longer holds.
Serialize(t, mode) ==
    /\ HasInstance(t)
    /\ dump' = [dump EXCEPT ![t] =
                    [kind |-> "dump", mode |-> mode, of |-> obj[t],
                     out |-> model_dump(cls[t], obj[t], mode)]]
    /\ again' = [again EXCEPT ![t] = Nil]
    /\ UNCHANGED <<pc, cls, arg, outcome, obj, changes, redo>>

\* A call of the shape on the slot's last dump.
Revalidate(t) ==
    /\ HasInstance(t)
    /\ dump[t] # Nil
    /\ again' = [again EXCEPT ![t] =
                    [kind |-> "again", of |-> dump[t].of, input |-> dump[t].out,
                     outcome |-> model_validate(cls[t], dump[t].out)]]
    /\ UNCHANGED <<pc, cls, arg, outcome, obj, changes, redo, dump>>

\* The caller drops the result; the slot is free for the next call.
Discard(t) ==
    /\ pc[t] # "idle"
    /\ pc' = [pc EXCEPT ![t] = "idle"]
    /\ cls' = [cls EXCEPT ![t] = "none"]
    /\ arg' = [arg EXCEPT ![t] = EmptyMap]
    /\ outcome' = [outcome EXCEPT ![t] = Nil]
    /\ obj' = [obj EXCEPT ![t] = EmptyMap]
    /\ changes' = [changes EXCEPT ![t] = 0]
    /\ redo' = [redo EXCEPT ![t] = Nil]
    /\ dump' = [dump EXCEPT ![t] = Nil]
    /\ again' = [again EXCEPT ![t] = Nil]

\* At most MaxChanges times a caller assigns to its instance, deletes from
\* it, initializes it again or takes a copy in its place.
MaxChanges == 1

MayChange(t) == HasInstance(t) /\ changes[t] < MaxChanges

\* instance.n = v for a declared field n: the value is stored as given.
\* (For any other name __setattr__ raises ValueError and stores nothing.)
SetAttr(t, n, v) ==
    /\ HasInstance(t)
    /\ n \in FieldNames(cls[t])
    /\ obj' = [obj EXCEPT ![t] = setattr(@, n, v)]
    /\ changes' = [changes EXCEPT ![t] = @ + 1]
    /\ UNCHANGED <<pc, cls, arg, outcome, redo, dump, again>>

\* del instance.n for an attribute the instance holds.  (For any other
\* name __delattr__ raises AttributeError and removes nothing.)
DelAttr(t, n) ==
    /\ HasInstance(t)
    /\ n \in DOMAIN obj[t]
    /\ obj' = [obj EXCEPT ![t] = delattr(@, n)]
    /\ changes' = [changes EXCEPT ![t] = @ + 1]
    /\ UNCHANGED <<pc, cls, arg, outcome, redo, dump, again>>

\* What instance.__init__ with the keywords m leaves in the instance that
\* held o: the validated values of m, or o when m is rejected.
reinitialized(o, r) == IF r.kind = "record" THEN r.fields ELSE o

\* instance.__init__ with the keywords m on an instance of shape c: m is
\* validated as on construction; the instance takes the validated values in
\* place of all its attributes, or ValidationError is raised and the
\* instance stays as it was.
Reinit(t, from) ==
    /\ HasInstance(t)
    /\ \E m \in from[cls[t]] :
          /\ redo' = [redo EXCEPT ![t] =
                         [kind |-> "redo", input |-> m, found |-> obj[t],
                          outcome |-> model_validate(cls[t], m)]]
          /\ obj' = [obj EXCEPT ![t] = reinitialized(@, model_validate(cls[t], m))]
    /\ changes' = [changes EXCEPT ![t] = @ + 1]
    /\ UNCHANGED <<pc, cls, arg, outcome, dump, again>>

\* One caller, whole calls: an instance from every input mapping, validated
\* or not, then assignment, deletion, initialization again, copying,
\* serialization and re-validation in any order.
Next ==
    \/ Construct("s1", Inputs)
    \/ ModelConstruct("s1", FewInputs)
    \/ \E u \in CopyUpdates : MayChange("s1") /\ ModelCopy("s1", u)
    \/ \E n \in AllFieldNames \cup {"rating"} : \E v \in {PyInt(7), PyStr(TxtMany)} :
          MayChange("s1") /\ SetAttr("s1", n, v)
    \/ \E n \in AllFieldNames \cup {"rating"} : MayChange("s1") /\ DelAttr("s1", n)
    \/ MayChange("s1") /\ Reinit("s1", FewInputs)
    \/ \E mode \in {"python", "json"} : Serialize("s1", mode)
    \/ Revalidate("s1")
    \/ Discard("s1")

Spec == Init /\ [][Next]_vars

(***************************************************************************)
(* Vocabulary of the properties                                            *)
(***************************************************************************)
\* The input value v can be converted to the declared type: the type's
\* conversion accepts it.
ConvertibleTo(type, v) == validate_field(type, v).ok

\* The type-normalized value of a convertible input value: what the type's
\* conversion makes of it.
NormalOf(type, v) == validate_field(type, v).v

\* The fields of shape c that the mapping m lacks, and those it gives a
\* value that cannot be converted.
MissingIn(c, m) == FieldNames(c) \ DOMAIN m

WrongIn(c, m) ==
    {n \in FieldNames(c) \cap DOMAIN m : ~ConvertibleTo(TypeOfField(c, n), m[n])}

ValidFor(c, m) == MissingIn(c, m) = {} /\ WrongIn(c, m) = {}

\* The type-normalized form of a valid mapping.
NormalForm(c, m) == [n \in FieldNames(c) |-> NormalOf(TypeOfField(c, n), m[n])]

\* The fields a ValidationError names.
Named(e) == {e.errors[i].loc : i \in 1..Len(e.errors)}

\* The call of slot t has finished.
Finished(t) == pc[t] \in {"returned", "raised"}

\* The calls of Construct-and-validate on its shape that slot t holds the
\* result of: the construction, the last initialization again and the
\* re-validation of the last serialization.
CallsOf(t) ==
    (IF Finished(t) THEN {[input |-> arg[t], outcome |-> outcome[t]]} ELSE {})
        \cup (IF redo[t] # Nil
              THEN {[input |-> redo[t].input, outcome |-> redo[t].outcome]}
              ELSE {})
        \cup (IF again[t] # Nil
              THEN {[input |-> again[t].input, outcome |-> again[t].outcome]}
              ELSE {})

\* Values that are of the wrong type whatever they hold: for text every
\* value that is no text, for an integer None and a date-time, for a
\* date-time None and a bool; and for an integer and a date-time a text
\* without any digit, which writes neither.
WrongKind(type, v) ==
    CASE type = "str" -> v.k # "str"
      [] type = "int" ->
            \/ v.k \in {"none", "datetime"}
            \/ v.k = "str" /\ \A i \in 1..Len(v.s) : ~IsDigit(v.s[i])
      [] type = "datetime" ->
            \/ v.k \in {"none", "bool"}
            \/ v.k = "str" /\ \A i \in 1..Len(v.s) : ~IsDigit(v.s[i])

\* The digits of n, least significant last, in exactly w places.
RECURSIVE Places(_, _)
Places(n, w) == IF w = 0 THEN <<>> ELSE Places(n \div 10, w - 1) \o <<Digits[(n % 10) + 1]>>

\* The ISO 8601 text of a date-time: "YYYY-MM-DDTHH:MM:SS", the microseconds
\* in six places when there are any, and the zone, "Z" for UTC.
IsoText(dt) ==
    LET a == IF dt.off < 0 THEN 0 - dt.off ELSE dt.off
    IN  Places(dt.y, 4) \o <<"-">> \o Places(dt.mo, 2) \o <<"-">> \o Places(dt.d, 2)
            \o <<"T">> \o Places(dt.h, 2) \o <<":">> \o Places(dt.mi, 2) \o <<":">>
            \o Places(dt.s, 2)
            \o (IF dt.us = 0 THEN <<>> ELSE <<".">> \o Places(dt.us, 6))
            \o (IF ~dt.aware THEN <<>>
                ELSE IF dt.off = 0 THEN <<"Z">>
                ELSE <<IF dt.off < 0 THEN "-" ELSE "+">> \o Places(a \div 3600, 2)
                        \o <<":">> \o Places((a % 3600) \div 60, 2))

\* The attribute values o are those of the record that the call of slot t
\* returned.
AsConstructed(o, t) == outcome[t].kind = "record" /\ o = outcome[t].fields

\* The part of a mapping under the keys that shape c declares.
Declared(c, m) == [n \in DOMAIN m \cap FieldNames(c) |-> m[n]]

\* that names every field it lacks, and no record is produced.
C2_MissingFieldFails ==
    /\ (Finished("s1") /\ MissingIn(cls["s1"], arg["s1"]) # {}) =>
          pc["s1"] = "raised" /\ obj["s1"] = EmptyMap
    /\ \A k \in CallsOf("s1") :
          MissingIn(cls["s1"], k.input) # {} =>
              /\ k.outcome.kind = "ValidationError"
              /\ \A n \in MissingIn(cls["s1"], k.input) :
                    \E i \in 1..Len(k.outcome.errors) :
                        k.outcome.errors[i] = [loc |-> n, type |-> "missing"]

C2_Witness ==
    /\ pc["s1"] = "raised"
    /\ cls["s1"] = "BookCreate"
    /\ MissingIn(cls["s1"], arg["s1"]) = {"isbn"}
    /\ Named(outcome["s1"]) = {"isbn"}

\* (missing or not convertible), each once, and no other field.
C4_AllViolationsReported ==
    \A k \in CallsOf("s1") :
        (MissingIn(cls["s1"], k.input) \cup WrongIn(cls["s1"], k.input) # {}) =>
            /\ k.outcome.kind = "ValidationError"
            /\ Named(k.outcome) = MissingIn(cls["s1"], k.input) \cup WrongIn(cls["s1"], k.input)
            /\ Len(k.outcome.errors)
                  = Cardinality(MissingIn(cls["s1"], k.input) \cup WrongIn(cls["s1"], k.input))

C4_Witness ==
    /\ pc["s1"] = "raised"
    /\ cls["s1"] = "Book"
    /\ MissingIn(cls["s1"], arg["s1"]) = {"title"}
    /\ WrongIn(cls["s1"], arg["s1"]) = {"page_count"}
    /\ arg["s1"]["page_count"] = PyStr(Ones(MaxStrDigits + 1))
    /\ Named(outcome["s1"]) = {"title", "page_count"}
    /\ Len(outcome["s1"].errors) = 2

\* C5: round trip.  The serialization (model_dump) of a record as validation
\* returned it is the type-normalized form of the input mapping, and
\* validating the serialization again as the same shape succeeds and gives a
\* record equal to the first.  With mode "json" the serialization holds each
\* date-time as its ISO 8601 text instead; validating it again succeeds too,
\* and gives a record equal to the first when the zone of every date-time
\* is in whole minutes, which is how the ISO text writes a zone.
C5_RoundTrip ==
    /\ (dump["s1"] # Nil /\ AsConstructed(dump["s1"].of, "s1")) =>
          /\ ValidFor(cls["s1"], arg["s1"])
          /\ dump["s1"].mode = "python" =>
                dump["s1"].out = NormalForm(cls["s1"], arg["s1"])
          /\ dump["s1"].mode = "json" =>
                dump["s1"].out =
                    [n \in FieldNames(cls["s1"]) |->
                        IF NormalForm(cls["s1"], arg["s1"])[n].k = "datetime"
                        THEN PyStr(IsoText(NormalForm(cls["s1"], arg["s1"])[n]))
                        ELSE NormalForm(cls["s1"], arg["s1"])[n]]
    /\ (again["s1"] # Nil /\ AsConstructed(again["s1"].of, "s1")) =>
          /\ again["s1"].input = dump["s1"].out
          /\ again["s1"].outcome.kind = "record"
          /\ dump["s1"].mode = "python" => again["s1"].outcome = outcome["s1"]
          /\ (/\ dump["s1"].mode = "json"
              /\ \A n \in FieldNames(cls["s1"]) :
                    outcome["s1"].fields[n].k = "datetime" =>
                        outcome["s1"].fields[n].off % 60 = 0) =>
                again["s1"].outcome = outcome["s1"]

C5_Witness ==
    /\ pc["s1"] = "returned"
    /\ cls["s1"] = "Book"
    /\ arg["s1"]["published_date"] = PyStr(TxtDate20210101)
    /\ arg["s1"]["id"] = PyBool(TRUE)
    /\ AsConstructed(obj["s1"], "s1")
    /\ dump["s1"] # Nil
    /\ dump["s1"].mode = "python"
    /\ dump["s1"].out["published_date"] = PyDatetime(2021, 1, 1, 0, 0, 0)
    /\ dump["s1"].out["id"] = PyInt(1)
    /\ again["s1"] # Nil
    /\ again["s1"].outcome = outcome["s1"]

\* C6: a returned record keeps the field values it was constructed with,
\* whatever is done with it.
C6_RecordIsImmutable ==
    \A t \in Slots : pc[t] = "returned" => obj[t] = outcome[t].fields

\* C7: the page_count of a Book or BookUpdate record is a non-negative
\* integer, and a mapping with a negative page_count is rejected with a
\* ValidationError naming page_count.
C7_PageCountNonNegative ==
    (Finished("s1") /\ cls["s1"] \in {"Book", "BookUpdate"}) =>
        /\ pc["s1"] = "returned" =>
              /\ outcome["s1"].fields["page_count"].k = "int"
              /\ ~outcome["s1"].fields["page_count"].neg
        /\ ("page_count" \in DOMAIN arg["s1"] /\ arg["s1"]["page_count"].k = "int"
                /\ arg["s1"]["page_count"].neg) =>
              /\ pc["s1"] = "raised"
              /\ "page_count" \in Named(outcome["s1"])

\* C10: keys that the shape does not declare change nothing: the outcome of
\* a call is that of the mapping without them, no error names them, and a
\* record holds exactly the declared fields.  No serialization carries an
\* undeclared key, and that of a record as validation returned it carries
\* exactly the declared fields: a BookUpdate mapping that also holds id and
\* published_date constructs and serializes to title, author, publisher,
\* page_count and language.
C10_UndeclaredKeysIgnored ==
    /\ \A k \in CallsOf("s1") :
          /\ k.outcome = model_validate(cls["s1"], Declared(cls["s1"], k.input))
          /\ k.outcome.kind = "record" => DOMAIN k.outcome.fields = FieldNames(cls["s1"])
          /\ k.outcome.kind = "ValidationError" =>
                Named(k.outcome) \subseteq FieldNames(cls["s1"])
          /\ (cls["s1"] = "BookUpdate"
                  /\ Declared("BookUpdate", k.input) = BookUpdateExample) =>
                k.outcome = [kind |-> "record", cls |-> "BookUpdate",
                             fields |-> BookUpdateExample]
    /\ dump["s1"] # Nil =>
          /\ DOMAIN dump["s1"].out \subseteq FieldNames(cls["s1"])
          /\ AsConstructed(dump["s1"].of, "s1") =>
                DOMAIN dump["s1"].out = FieldNames(cls["s1"])

C10_Witness ==
    /\ pc["s1"] = "returned"
    /\ cls["s1"] = "BookUpdate"
    /\ AsConstructed(obj["s1"], "s1")
    /\ DOMAIN arg["s1"] = FieldNames("BookUpdate") \cup {"id", "published_date"}
    /\ dump["s1"] # Nil
    /\ dump["s1"].of = obj["s1"]
    /\ DOMAIN dump["s1"].out = {"title", "author", "publisher", "page_count", "language"}

====
